---------------------------- MODULE Spec2Model ----------------------------
(***************************************************************************)
(* A model of the madness mDNS crate: the DNS wire codec (header flag      *)
(* setters, packet builder, record data serialisers) and the multicast     *)
(* service engine (MdnsService: advertised set, discovery tickers, send    *)
(* queues, the loop of next()).                                            *)
(*                                                                         *)
(* Bytes are naturals 0..255, byte strings and names are sequences of      *)
(* bytes.  A u16 is a natural below 65536.  A u32 is kept as two 16-bit    *)
(* limbs [hi, lo] and a u64 as four, most significant first, because the   *)
(* model checker's integers are 32-bit signed.                             *)
(***************************************************************************)
EXTENDS Integers, Sequences, FiniteSets, TLC

(***************************************************************************)
(* Bounds of the model.                                                    *)
(***************************************************************************)
MaxQuestions == 2
MaxAnswers == 2
MaxSubs == 1
MaxInbox == 1
MaxTicks == 2

(***************************************************************************)
(* Program constants.                                                      *)
(***************************************************************************)
RecvBufferSize == 2048
ChannelCapacity == 100

\* "_services._dns-sd._udp.local"
META_QUERY_SERVICE ==
    <<95, 115, 101, 114, 118, 105, 99, 101, 115, 46, 95, 100, 110, 115, 45,
      115, 100, 46, 95, 117, 100, 112, 46, 108, 111, 99, 97, 108>>

(***************************************************************************)
(* Names and strings used as inputs (taken from the crate's tests, its     *)
(* example and the scenarios of the specification).                        *)
(***************************************************************************)
\* "_myservice._tcp.local"
NameMyService ==
    <<95, 109, 121, 115, 101, 114, 118, 105, 99, 101, 46, 95, 116, 99, 112,
      46, 108, 111, 99, 97, 108>>
\* "_other._tcp.local"
NameOther ==
    <<95, 111, 116, 104, 101, 114, 46, 95, 116, 99, 112, 46, 108, 111, 99,
      97, 108>>
\* "_service._tcp.local"
NameService ==
    <<95, 115, 101, 114, 118, 105, 99, 101, 46, 95, 116, 99, 112, 46, 108,
      111, 99, 97, 108>>
\* "marin._myservice._tcp.local"
NameMarinInstance ==
    <<109, 97, 114, 105, 110, 46, 95, 109, 121, 115, 101, 114, 118, 105, 99,
      101, 46, 95, 116, 99, 112, 46, 108, 111, 99, 97, 108>>
\* "marin.local"
NameMarinHost == <<109, 97, 114, 105, 110, 46, 108, 111, 99, 97, 108>>
\* "foo=bar", "baz=qux", "foobar"
TxtFooBar == <<102, 111, 111, 61, 98, 97, 114>>
TxtBazQux == <<98, 97, 122, 61, 113, 117, 120>>
TxtFoobar == <<102, 111, 111, 98, 97, 114>>

(***************************************************************************)
(* Integer helpers of fixed width.                                         *)
(***************************************************************************)
Min(a, b) == IF a < b THEN a ELSE b

RECURSIVE BitAnd(_, _, _)
\* a & b on the low n bits
BitAnd(a, b, n) ==
    IF n = 0 THEN 0
    ELSE ((a % 2) * (b % 2)) + 2 * BitAnd(a \div 2, b \div 2, n - 1)

RECURSIVE BitOr(_, _, _)
\* a | b on the low n bits
BitOr(a, b, n) ==
    IF n = 0 THEN 0
    ELSE (IF (a % 2) + (b % 2) > 0 THEN 1 ELSE 0)
         + 2 * BitOr(a \div 2, b \div 2, n - 1)

RECURSIVE BitXor(_, _, _)
\* a ^ b on the low n bits
BitXor(a, b, n) ==
    IF n = 0 THEN 0
    ELSE (((a % 2) + (b % 2)) % 2) + 2 * BitXor(a \div 2, b \div 2, n - 1)

\* the 16 bits of -(b as i16): all ones for true, all zeros for false
NegBool16(b) == IF b THEN 65535 ELSE 0

\* 1 << k
Shl1(k) == 2 ^ k

\* the u32 whose big-endian octets are o (Ipv4Addr into u32), as two limbs
U32FromOctets(o) == [hi |-> o[1] * 256 + o[2], lo |-> o[3] * 256 + o[4]]
U32Of(n) == [hi |-> n \div 65536, lo |-> n % 65536]
U32Max == [hi |-> 65535, lo |-> 65535]

\* a u64 from a natural below 2^31
U64Of(n) == <<0, 0, n \div 65536, n % 65536>>
U64Max == <<65535, 65535, 65535, 65535>>

RECURSIVE U64IncFrom(_, _)
\* x + 1 with the carry entering at limb i (4 is the least significant);
\* the caller excludes U64Max
U64IncFrom(x, i) ==
    IF x[i] < 65535 THEN [x EXCEPT ![i] = x[i] + 1]
    ELSE U64IncFrom([x EXCEPT ![i] = 0], i - 1)

\* u64::saturating_add(x, d) for d in {0, 1}
U64SaturatingAdd(x, d) ==
    IF d = 0 \/ x = U64Max THEN x ELSE U64IncFrom(x, 4)

(***************************************************************************)
(* dns.rs: the byte writers.                                               *)
(***************************************************************************)
append_u16(out, value) == out \o <<(value \div 256) % 256, value % 256>>

append_u32(out, value) ==
    out \o <<(value.hi \div 256) % 256, value.hi % 256,
             (value.lo \div 256) % 256, value.lo % 256>>

\* the position of the first dot of name at or after from, Len(name) + 1 if
\* there is none
FirstDot(name, from) ==
    IF \E i \in from..Len(name) : name[i] = 46
    THEN CHOOSE i \in from..Len(name) :
             name[i] = 46 /\ \A j \in from..(i - 1) : name[j] # 46
    ELSE Len(name) + 1

RECURSIVE SplitDotFrom(_, _, _)
\* the elements of name from position from on, dot being its first dot there
SplitDotFrom(name, from, dot) ==
    IF dot > Len(name) THEN <<SubSeq(name, from, Len(name))>>
    ELSE <<SubSeq(name, from, dot - 1)>>
         \o SplitDotFrom(name, dot + 1, FirstDot(name, dot + 1))

\* name.split(|&c| c == b'.'): the elements between the dots, empty ones kept
SplitDot(name) == SplitDotFrom(name, 1, FirstDot(name, 1))

\* the two assertions of append_qname: a label of 64 bytes or more, or an
\* empty label, aborts
QnamePanics(name) ==
    \E i \in 1..Len(SplitDot(name)) :
        Len(SplitDot(name)[i]) >= 64 \/ Len(SplitDot(name)[i]) = 0

RECURSIVE AppendLabels(_, _)
AppendLabels(out, labels) ==
    IF labels = <<>> THEN out
    ELSE AppendLabels(out \o <<Len(Head(labels)) % 256>> \o Head(labels),
                      Tail(labels))

\* append_qname without the final out.push(0)
append_qname_without_terminator(out, name) == AppendLabels(out, SplitDot(name))

\* append_qname, for a name that passes its assertions
append_qname(out, name) == AppendLabels(out, SplitDot(name)) \o <<0>>

\* duration_to_secs as a plain cast: the sub-second part dropped, the
\* seconds cut to their low 32 bits
duration_to_secs_truncating(duration) ==
    [hi |-> duration.secs[3], lo |-> duration.secs[4]]

\* duration_to_secs: seconds rounded up, saturating at u32::MAX
duration_to_secs(duration) ==
    LET secs == U64SaturatingAdd(duration.secs,
                                 IF duration.nanos > 0 THEN 1 ELSE 0)
    IN  IF secs[1] > 0 \/ secs[2] > 0 THEN U32Max
        ELSE [hi |-> secs[3], lo |-> secs[4]]

\* Duration::from_secs(n)
DurationFromSecs(n) == [secs |-> U64Of(n), nanos |-> 0]

(***************************************************************************)
(* dns/rdata/*.rs: the record data serialisers.  A record datum is a       *)
(* record with a kind and the fields of its variant.                       *)
(***************************************************************************)
RDataA(addr) == [kind |-> "A", addr |-> addr]
RDataAAAA(addr) == [kind |-> "AAAA", addr |-> addr]
RDataPTR(ptr) == [kind |-> "PTR", ptr |-> ptr]
RDataSRV(port, priority, weight, target) ==
    [kind |-> "SRV", port |-> port, weight |-> weight,
     priority |-> priority, target |-> target]
RDataTXT(entries) == [kind |-> "TXT", entries |-> entries]

\* out[idx], out[idx + 1] = the big-endian 16 bits of len (idx counts from 0)
PatchU16(out, idx, len) ==
    [out EXCEPT ![idx + 1] = (len \div 256) % 256, ![idx + 2] = len % 256]

a_append_bytes(out, data) == append_u32(out, U32FromOctets(data.addr))

aaaa_append_bytes(out, data) == out \o data.addr

ptr_append_bytes(out, data) == append_qname(out, data.ptr)

srv_append_bytes(out, data) ==
    append_qname(
        append_u16(append_u16(append_u16(out, data.priority), data.weight),
                   data.port),
        data.target)

RECURSIVE TxtEntriesAppend(_, _)
\* the loop of txt::Record::append_bytes: the entry's length as a byte, then
\* the entry through append_qname
TxtEntriesAppend(out, entries) ==
    IF entries = <<>> THEN out
    ELSE TxtEntriesAppend(
             append_qname(Append(out, Len(Head(entries)) % 256), Head(entries)),
             Tail(entries))

txt_append_bytes(out, data) ==
    LET idx == Len(out)
        written == TxtEntriesAppend(append_u16(out, 0), data.entries)
        len == (Len(written) - idx) - 2
    IN  PatchU16(written, idx, len)

\* impl AppendBytes for RData
rdata_append_bytes(out, data) ==
    CASE data.kind = "A" -> a_append_bytes(out, data)
      [] data.kind = "AAAA" -> aaaa_append_bytes(out, data)
      [] data.kind = "PTR" -> ptr_append_bytes(out, data)
      [] data.kind = "SRV" -> srv_append_bytes(out, data)
      [] data.kind = "TXT" -> txt_append_bytes(out, data)

\* RData::code
rdata_code(data) ==
    CASE data.kind = "A" -> 1
      [] data.kind = "AAAA" -> 28
      [] data.kind = "PTR" -> 12
      [] data.kind = "SRV" -> 33
      [] data.kind = "TXT" -> 16

\* the names a datum sends through append_qname
RDataPanics(data) ==
    CASE data.kind = "PTR" -> QnamePanics(data.ptr)
      [] data.kind = "SRV" -> QnamePanics(data.target)
      [] data.kind = "TXT" ->
           \E i \in 1..Len(data.entries) : QnamePanics(data.entries[i])
      [] OTHER -> FALSE

(***************************************************************************)
(* dns/resource_record.rs                                                  *)
(***************************************************************************)
\* dns_parser::Class as u16
ClassCode(class) ==
    CASE class = "IN" -> 1
      [] class = "CS" -> 2
      [] class = "CH" -> 3
      [] class = "HS" -> 4

\* ResourceRecord::new
ResourceRecord(name, ttl, class, data) ==
    [name |-> name, ttl |-> ttl, class |-> class, data |-> data]

\* append_data counting the two reserved bytes into the length
append_data_counting_prefix(out, data) ==
    PatchU16(rdata_append_bytes(append_u16(out, 0), data), Len(out),
             Len(rdata_append_bytes(append_u16(out, 0), data)) - Len(out))

\* append_data: reserve two bytes, write the data, patch the length in place
append_data(out, data) ==
    LET idx == Len(out)
        written == rdata_append_bytes(append_u16(out, 0), data)
        len == (Len(written) - idx) - 2
    IN  PatchU16(written, idx, len)

\* impl AppendBytes for ResourceRecord
rr_append_bytes(out, rr) ==
    LET o1 == append_qname(out, rr.name)
        o2 == append_u16(o1, rdata_code(rr.data))
        o3 == append_u16(o2, ClassCode(rr.class))
        ttl_secs == duration_to_secs(rr.ttl)
        o4 == append_u32(o3, ttl_secs)
    IN  append_data(o4, rr.data)

RecordPanics(rr) == QnamePanics(rr.name) \/ RDataPanics(rr.data)

(***************************************************************************)
(* dns.rs: append_txt_record and the TXT arm of Answer::append_bytes.  A   *)
(* result is a record: res is "Ok", "Err" (TxtRecordTooLong) or "Panic"    *)
(* (an assertion of append_qname, or unwrap on an Err), out the bytes      *)
(* written until then.                                                     *)
(***************************************************************************)
TxtResult(res, out) == [res |-> res, out |-> out]

RECURSIVE TxtBuffer(_, _)
\* the loop over the entries, filling the local buffer: an entry above 255
\* bytes returns the error, a label append_qname rejects aborts
TxtBuffer(buffer, entries) ==
    IF entries = <<>> THEN TxtResult("Ok", buffer)
    ELSE IF Len(Head(entries)) > 255 THEN TxtResult("Err", buffer)
    ELSE IF QnamePanics(Head(entries)) THEN TxtResult("Panic", buffer)
    ELSE TxtBuffer(append_qname(Append(buffer, Len(Head(entries))),
                                Head(entries)),
                   Tail(entries))

\* the end of append_txt_record: a single zero byte for an empty buffer, the
\* check of the 16-bit length, the length and the buffer
TxtFinish(out, filled) ==
    IF filled.res # "Ok" THEN TxtResult(filled.res, out)
    ELSE IF filled.out = <<>> THEN TxtResult("Ok", append_u16(out, 1) \o <<0>>)
    ELSE IF Len(filled.out) > 65535 THEN TxtResult("Err", out)
    ELSE TxtResult("Ok", append_u16(out, Len(filled.out)) \o filled.out)

append_txt_record(out, service_name, ttl_secs, entries) ==
    IF QnamePanics(service_name) THEN TxtResult("Panic", out)
    ELSE TxtFinish(append_u32(append_qname(out, service_name) \o <<0, 16, 128, 1>>,
                              ttl_secs),
                   TxtBuffer(<<>>, entries))

\* Answer::TXT { name, ttl, entries }
AnswerTXT(name, ttl, entries) ==
    [kind |-> "TXT", name |-> name, ttl |-> ttl, entries |-> entries]

\* Answer::PTR { name, ptr, ttl }
AnswerPTR(name, ptr, ttl) ==
    [kind |-> "PTR", name |-> name, ptr |-> ptr, ttl |-> ttl]

\* Answer::SRV { port, priority, weight, target, ttl, name }
AnswerSRV(port, priority, weight, target, ttl, name) ==
    [kind |-> "SRV", port |-> port, priority |-> priority, weight |-> weight,
     target |-> target, ttl |-> ttl, name |-> name]

\* Answer::A { addr, name, ttl }
AnswerA(addr, name, ttl) ==
    [kind |-> "A", addr |-> addr, name |-> name, ttl |-> ttl]

\* the PTR arm: name, type, class IN with the top bit, TTL, the length as
\* ptr.len() + 2 on 16 bits, the target
answer_ptr(out, answer) ==
    append_qname(
        append_u16(
            append_u32(
                append_u16(append_u16(append_qname(out, answer.name), 12),
                           BitOr(1, 32768, 16)),
                duration_to_secs(answer.ttl)),
            (Len(answer.ptr) + 2) % 65536),
        answer.ptr)

\* the SRV arm: name, type, class, TTL, the length as 2 + 2 + 2 +
\* target.len() + 2 on 16 bits, priority, weight, port, the target
answer_srv(out, answer) ==
    append_qname(
        append_u16(
            append_u16(
                append_u16(
                    append_u16(
                        append_u32(
                            append_u16(append_u16(append_qname(out, answer.name),
                                                  33),
                                       1),
                            duration_to_secs(answer.ttl)),
                        (2 + 2 + 2 + Len(answer.target) + 2) % 65536),
                    answer.priority),
                answer.weight),
            answer.port),
        answer.target)

\* the A arm: name, type, class, TTL, the length 4, the address
answer_a(out, answer) ==
    append_u32(
        append_u16(
            append_u32(
                append_u16(append_u16(append_qname(out, answer.name), 1), 1),
                duration_to_secs(answer.ttl)),
            4),
        U32FromOctets(answer.addr))

\* the TXT arm: append_txt_record(...).unwrap()
answer_txt(out, answer) ==
    IF append_txt_record(out, answer.name, duration_to_secs(answer.ttl),
                         answer.entries).res = "Ok"
    THEN append_txt_record(out, answer.name, duration_to_secs(answer.ttl),
                           answer.entries)
    ELSE TxtResult("Panic", append_txt_record(out, answer.name,
                                              duration_to_secs(answer.ttl),
                                              answer.entries).out)

\* Answer::append_bytes; an assertion of append_qname aborts it
answer_append_bytes(out, answer) ==
    CASE answer.kind = "PTR" ->
           IF QnamePanics(answer.name) \/ QnamePanics(answer.ptr)
           THEN TxtResult("Panic", out)
           ELSE TxtResult("Ok", answer_ptr(out, answer))
      [] answer.kind = "SRV" ->
           IF QnamePanics(answer.name) \/ QnamePanics(answer.target)
           THEN TxtResult("Panic", out)
           ELSE TxtResult("Ok", answer_srv(out, answer))
      [] answer.kind = "A" ->
           IF QnamePanics(answer.name) THEN TxtResult("Panic", out)
           ELSE TxtResult("Ok", answer_a(out, answer))
      [] answer.kind = "TXT" -> answer_txt(out, answer)

RECURSIVE EntriesSize(_)
\* entries.iter().map(|e| e.as_bytes().len() + 3).sum()
EntriesSize(entries) ==
    IF entries = <<>> THEN 0
    ELSE Len(Head(entries)) + 3 + EntriesSize(Tail(entries))

\* Answer::bytes_size
bytes_size(answer) ==
    CASE answer.kind = "PTR" -> Len(answer.name) + Len(answer.ptr) + 14
      [] answer.kind = "SRV" -> Len(answer.name) + Len(answer.target) + 20
      [] answer.kind = "A" -> Len(answer.name) + 16
      [] answer.kind = "TXT" ->
           Len(answer.name) + EntriesSize(answer.entries) + 12

(***************************************************************************)
(* dns/header.rs                                                           *)
(***************************************************************************)
\* PacketHeader::default()
DefaultHeader ==
    [id |-> 0, flags |-> 0, qd_count |-> 0, an_count |-> 0,
     ns_count |-> 0, ar_count |-> 0]

set_id(h, id) == [h EXCEPT !.id = id]

\* self.flags = ((-(!set as i16) ^ self.flags as i16) & (1 << 15)) as u16
set_query(h, set) ==
    [h EXCEPT !.flags =
        BitAnd(BitXor(NegBool16(~set), h.flags, 16), Shl1(15), 16)]

is_query(h) == BitAnd(h.flags, Shl1(15), 16) # 0

\* OpCode as u16
OpCodeValue(code) ==
    CASE code = "QUERY" -> 0 [] code = "IQUERY" -> 2 [] code = "STATUS" -> 3

\* self.flags &= 0x87ff; self.flags |= (code as u16) << 11
set_opcode(h, code) ==
    [h EXCEPT !.flags =
        BitOr(BitAnd(h.flags, 34815, 16), OpCodeValue(code) * Shl1(11), 16)]

\* self.flags = ((-(set as i16) ^ self.flags as i16) & (1 << 10)) as u16
set_aa(h, set) ==
    [h EXCEPT !.flags =
        BitAnd(BitXor(NegBool16(set), h.flags, 16), Shl1(10), 16)]

aa(h) == BitAnd(h.flags, Shl1(10), 16) # 0

set_tc(h, set) ==
    [h EXCEPT !.flags =
        BitAnd(BitXor(NegBool16(set), h.flags, 16), Shl1(9), 16)]

tc(h) == BitAnd(h.flags, Shl1(9), 16) # 0

set_rd(h, set) ==
    [h EXCEPT !.flags =
        BitAnd(BitXor(NegBool16(set), h.flags, 16), Shl1(8), 16)]

rd(h) == BitAnd(h.flags, Shl1(8), 16) # 0

set_ra(h, set) ==
    [h EXCEPT !.flags =
        BitAnd(BitXor(NegBool16(set), h.flags, 16), Shl1(7), 16)]

ra(h) == BitAnd(h.flags, Shl1(7), 16) # 0

\* RCode as u16
RCodeValue(code) ==
    CASE code = "NoError" -> 0 [] code = "FormatError" -> 1
      [] code = "ServerFailure" -> 2 [] code = "NameError" -> 3
      [] code = "NotImplemmented" -> 4 [] code = "Refused" -> 5

\* self.flags &= 0xfff8; self.flags |= code as u16
set_rcode(h, code) ==
    [h EXCEPT !.flags =
        BitOr(BitAnd(h.flags, 65528, 16), RCodeValue(code), 16)]

\* impl AppendBytes for PacketHeader
header_append_bytes(out, h) ==
    append_u16(append_u16(append_u16(append_u16(append_u16(append_u16(
        out, h.id), h.flags), h.qd_count), h.an_count), h.ns_count),
        h.ar_count)

(***************************************************************************)
(* dns/packet.rs                                                           *)
(***************************************************************************)
\* dns_parser::QueryType as u16, dns_parser::QueryClass as u16
QueryTypeCode(qtype) ==
    CASE qtype = "A" -> 1 [] qtype = "PTR" -> 12 [] qtype = "TXT" -> 16
      [] qtype = "AAAA" -> 28 [] qtype = "SRV" -> 33 [] qtype = "All" -> 255

QueryClassCode(qclass) ==
    CASE qclass = "IN" -> 1 [] qclass = "CS" -> 2 [] qclass = "CH" -> 3
      [] qclass = "HS" -> 4 [] qclass = "Any" -> 255

Question(name, prefer_unicast, qtype, qclass) ==
    [name |-> name, prefer_unicast |-> prefer_unicast,
     qtype |-> qtype, qclass |-> qclass]

\* impl AppendBytes for Question
question_append_bytes(out, q) ==
    append_u16(append_u16(append_qname(out, q.name), QueryTypeCode(q.qtype)),
               QueryClassCode(q.qclass))

\* a PacketBuilder: the header and the two lists
NewBuilder == [header |-> DefaultHeader, questions |-> <<>>, answers |-> <<>>]

\* add_answer without the increment of an_count
add_answer_without_count(b, answer) == [b EXCEPT !.answers = Append(@, answer)]

\* self.header.qd_count += 1 on a u16 (wrapping, as a release build does)
add_question(b, prefer_unicast, name, qclass, qtype) ==
    [b EXCEPT !.questions = Append(@, Question(name, prefer_unicast, qtype, qclass)),
              !.header.qd_count = (@ + 1) % 65536]

add_answer(b, answer) ==
    [b EXCEPT !.answers = Append(@, answer),
              !.header.an_count = (@ + 1) % 65536]

RECURSIVE AppendQuestions(_, _)
AppendQuestions(out, qs) ==
    IF qs = <<>> THEN out
    ELSE AppendQuestions(question_append_bytes(out, Head(qs)), Tail(qs))

RECURSIVE AppendAnswers(_, _)
AppendAnswers(out, rrs) ==
    IF rrs = <<>> THEN out
    ELSE AppendAnswers(rr_append_bytes(out, Head(rrs)), Tail(rrs))

\* PacketBuilder::build: header, then the questions, then the answers
build(b) ==
    AppendAnswers(AppendQuestions(header_append_bytes(<<>>, b.header),
                                  b.questions),
                  b.answers)

\* buffer.len() in build after the header and the questions (first entry),
\* and then after each answer's append_bytes: where each emitted record ends
build_marks(b) ==
    [i \in 1..(Len(b.answers) + 1) |->
        Len(AppendAnswers(AppendQuestions(header_append_bytes(<<>>, b.header),
                                          b.questions),
                          SubSeq(b.answers, 1, i - 1)))]

BuildPanics(b) ==
    \/ \E i \in 1..Len(b.questions) : QnamePanics(b.questions[i].name)
    \/ \E i \in 1..Len(b.answers) : RecordPanics(b.answers[i])

(***************************************************************************)
(* The inbound parser (the dns_parser crate), by its contract: a header of *)
(* twelve bytes, then the questions, then the records, names as labels     *)
(* ended by a zero byte or by a backward compression pointer, every record *)
(* datum framed by its RDLENGTH.  Positions count from 1.                  *)
(***************************************************************************)
U16At(b, pos) == b[pos] * 256 + b[pos + 1]

RECURSIVE JoinDots(_)
\* Name::to_string: the labels joined by dots
JoinDots(labels) ==
    IF labels = <<>> THEN <<>>
    ELSE IF Len(labels) = 1 THEN Head(labels)
    ELSE Head(labels) \o <<46>> \o JoinDots(Tail(labels))

NameFail == [ok |-> FALSE, labels |-> <<>>, next |-> 0]

\* the labels r reached through a pointer; the name ends after the pointer
LabelsVia(r, next) == [ok |-> r.ok, labels |-> r.labels, next |-> next]

\* one more label in front of the labels r
LabelsCons(label, r) ==
    [ok |-> r.ok, labels |-> <<label>> \o r.labels, next |-> r.next]

RECURSIVE ReadLabels(_, _, _)
ReadLabels(b, pos, fuel) ==
    IF fuel = 0 \/ pos > Len(b) THEN NameFail
    ELSE IF b[pos] = 0 THEN [ok |-> TRUE, labels |-> <<>>, next |-> pos + 1]
    ELSE IF b[pos] >= 192
    THEN IF pos + 1 > Len(b) THEN NameFail
         ELSE IF (b[pos] - 192) * 256 + b[pos + 1] + 1 >= pos THEN NameFail
         ELSE LabelsVia(ReadLabels(b, (b[pos] - 192) * 256 + b[pos + 1] + 1,
                                   fuel - 1),
                        pos + 2)
    ELSE IF b[pos] >= 64 \/ pos + b[pos] > Len(b) THEN NameFail
    ELSE LabelsCons(SubSeq(b, pos + 1, pos + b[pos]),
                    ReadLabels(b, pos + 1 + b[pos], fuel - 1))

NameOf(r) == [ok |-> r.ok, name |-> JoinDots(r.labels), next |-> r.next]

\* a name read at pos: [ok, name (dotted), next]
ReadName(b, pos) == NameOf(ReadLabels(b, pos, Len(b)))

KnownTypes == (1..16) \cup {28, 33, 41, 47}
KnownQueryTypes == KnownTypes \cup (252..255)
KnownClasses == 1..4
KnownQueryClasses == KnownClasses \cup {255}

ItemsFail == [ok |-> FALSE, items |-> <<>>, next |-> 0]

ItemsCons(item, r) ==
    [ok |-> r.ok, items |-> <<item>> \o r.items, next |-> r.next]

RECURSIVE ReadQuestions(_, _, _)

QuestionFields(b, n, nm, qtype, cls) ==
    IF qtype \notin KnownQueryTypes \/ (cls % 32768) \notin KnownQueryClasses
    THEN ItemsFail
    ELSE ItemsCons([qname |-> nm.name, prefer_unicast |-> cls >= 32768,
                    qtype |-> qtype, qclass |-> cls % 32768],
                   ReadQuestions(b, nm.next + 4, n - 1))

QuestionAfterName(b, n, nm) ==
    IF ~nm.ok \/ nm.next + 3 > Len(b) THEN ItemsFail
    ELSE QuestionFields(b, n, nm, U16At(b, nm.next), U16At(b, nm.next + 2))

ReadQuestions(b, pos, n) ==
    IF n = 0 THEN [ok |-> TRUE, items |-> <<>>, next |-> pos]
    ELSE QuestionAfterName(b, n, ReadName(b, pos))

TxtCons(entry, r) == [ok |-> r.ok, entries |-> <<entry>> \o r.entries]

RECURSIVE ReadTxt(_, _, _)
\* the length-prefixed strings of a TXT datum held in b[pos..last]
ReadTxt(b, pos, last) ==
    IF pos > last THEN [ok |-> TRUE, entries |-> <<>>]
    ELSE IF pos + b[pos] > last THEN [ok |-> FALSE, entries |-> <<>>]
    ELSE TxtCons(SubSeq(b, pos + 1, pos + b[pos]),
                 ReadTxt(b, pos + 1 + b[pos], last))

DataFail == [ok |-> FALSE, data |-> [kind |-> "none"]]

PtrOf(nm) ==
    IF ~nm.ok THEN DataFail ELSE [ok |-> TRUE, data |-> RDataPTR(nm.name)]

SrvOf(b, pos, nm) ==
    IF ~nm.ok THEN DataFail
    ELSE [ok |-> TRUE,
          data |-> RDataSRV(U16At(b, pos + 4), U16At(b, pos),
                            U16At(b, pos + 2), nm.name)]

TxtOf(t) ==
    IF ~t.ok THEN DataFail ELSE [ok |-> TRUE, data |-> RDataTXT(t.entries)]

\* the datum of a record of the given type held in b[pos..pos + len - 1]
ReadRData(b, type, pos, len) ==
    CASE type = 1 ->
           IF len # 4 THEN DataFail
           ELSE [ok |-> TRUE, data |-> RDataA(SubSeq(b, pos, pos + 3))]
      [] type = 28 ->
           IF len # 16 THEN DataFail
           ELSE [ok |-> TRUE, data |-> RDataAAAA(SubSeq(b, pos, pos + 15))]
      [] type = 12 -> PtrOf(ReadName(b, pos))
      [] type = 33 ->
           IF len < 7 THEN DataFail ELSE SrvOf(b, pos, ReadName(b, pos + 6))
      [] type = 16 ->
           IF len < 1 THEN DataFail ELSE TxtOf(ReadTxt(b, pos, pos + len - 1))
      [] OTHER -> [ok |-> TRUE, data |-> [kind |-> "Unknown"]]

RECURSIVE ReadRecords(_, _, _)

RecordWith(nm, cls, ttl, d, r) ==
    IF ~d.ok THEN ItemsFail
    ELSE ItemsCons([name |-> nm.name, multicast_unique |-> cls >= 32768,
                    cls |-> cls % 32768, ttl |-> ttl, data |-> d.data], r)

RecordFields(b, n, nm, type, cls, ttl, rdlen, start) ==
    IF type \notin KnownTypes \/ (cls % 32768) \notin KnownClasses
       \/ start + rdlen - 1 > Len(b)
    THEN ItemsFail
    ELSE RecordWith(nm, cls, ttl, ReadRData(b, type, start, rdlen),
                    ReadRecords(b, start + rdlen, n - 1))

RecordAfterName(b, n, nm) ==
    IF ~nm.ok \/ nm.next + 9 > Len(b) THEN ItemsFail
    ELSE RecordFields(b, n, nm, U16At(b, nm.next), U16At(b, nm.next + 2),
                      [hi |-> U16At(b, nm.next + 4),
                       lo |-> U16At(b, nm.next + 6)],
                      U16At(b, nm.next + 8), nm.next + 10)

ReadRecords(b, pos, n) ==
    IF n = 0 THEN [ok |-> TRUE, items |-> <<>>, next |-> pos]
    ELSE RecordAfterName(b, n, ReadName(b, pos))

ParseFail ==
    [ok |-> FALSE, header |-> [id |-> 0, query |-> FALSE, questions |-> 0,
                               answers |-> 0],
     questions |-> <<>>, answers |-> <<>>]

ParseAfterAdditional(b, qs, an, ar) ==
    IF ~ar.ok THEN ParseFail
    ELSE [ok |-> TRUE,
          header |-> [id |-> U16At(b, 1), query |-> U16At(b, 3) < 32768,
                      questions |-> U16At(b, 5), answers |-> U16At(b, 7)],
          questions |-> qs.items,
          answers |-> an.items]

ParseAfterNameservers(b, qs, an, ns) ==
    IF ~ns.ok THEN ParseFail
    ELSE ParseAfterAdditional(b, qs, an, ReadRecords(b, ns.next, U16At(b, 11)))

ParseAfterAnswers(b, qs, an) ==
    IF ~an.ok THEN ParseFail
    ELSE ParseAfterNameservers(b, qs, an, ReadRecords(b, an.next, U16At(b, 9)))

ParseAfterQuestions(b, qs) ==
    IF ~qs.ok THEN ParseFail
    ELSE ParseAfterAnswers(b, qs, ReadRecords(b, qs.next, U16At(b, 7)))

\* Packet::parse
Parse(b) ==
    IF Len(b) < 12 \/ BitAnd(U16At(b, 3), 64, 16) # 0 THEN ParseFail
    ELSE ParseAfterQuestions(b, ReadQuestions(b, 13, U16At(b, 5)))

(***************************************************************************)
(* State.                                                                  *)
(***************************************************************************)
VARIABLES
    \* the codec: a PacketBuilder in the caller's hands
    builder,        \* the PacketBuilder (header, questions, answers)
    phase,          \* "open", or "built" / "panicked" once build has run,
                    \* "appended" once Answer::append_bytes has
    buffer,         \* the bytes build returned
    marks,          \* the buffer's length after each emitted record
    last_call,      \* the header or Answer method called last, with its
                    \* argument
    \* the engine: an MdnsService and its discovery tickers
    advertized_sevices,
    recv_slice,     \* the slice &self.recv_buffer[..len] this call of next()
                    \* has given to parse_mdns_packets, empty before it has
    send_buffers,
    query_send_buffers,
    scheduler,      \* the names in the mpsc channel of the discovery scheduler
    sub_name,       \* per discover call: the service name
    handle,         \* per discover call: "none", "held" or "dropped"
    ticker,         \* per discover call: "none", "tick" (awaiting) or "done"
    last_try,       \* per discover call: what orx.try_recv() returned last
    woke,           \* per discover call: the number of ticks taken
    inbox,          \* what the main socket has ready for recv_from
    pc,             \* where next() is: "idle" (not running), "flush", "select"
    returned,       \* what the last next() returned
    used,           \* the buffers given to enqueue_response so far, in order
    wire_main,      \* what the main socket has sent, in order
    wire_query      \* what the query socket has sent, in order

codecVars == <<builder, phase, buffer, marks, last_call>>
engineVars ==
    <<advertized_sevices, recv_slice, send_buffers, query_send_buffers,
      scheduler, sub_name, handle, ticker, last_try, woke, inbox, pc,
      returned, used, wire_main, wire_query>>
vars == <<codecVars, engineVars>>

(***************************************************************************)
(* The codec's inputs.                                                     *)
(***************************************************************************)
IdSamples == {0, 12}

QuestionSamples ==
    {Question(NameMyService, TRUE, "PTR", "IN"),
     Question(META_QUERY_SERVICE, FALSE, "PTR", "IN")}

\* the three answers of packet.rs test::build_packet, the PTR and SRV answers
\* of examples/simple_advertisement.rs
AnswerSamples ==
    {ResourceRecord(NameService, DurationFromSecs(4500), "IN",
                    RDataA(<<7, 123, 234, 1>>)),
     ResourceRecord(NameService, DurationFromSecs(4500), "IN",
                    RDataTXT(<<TxtFooBar, TxtBazQux, TxtFoobar>>)),
     ResourceRecord(NameService, DurationFromSecs(4500), "IN",
                    RDataAAAA(<<171, 205, 67, 145, 213, 58, 152, 221,
                                122, 79, 0, 0, 255, 255, 1, 35>>)),
     ResourceRecord(NameMyService, DurationFromSecs(4500), "IN",
                    RDataPTR(NameMarinInstance)),
     ResourceRecord(NameMarinInstance, DurationFromSecs(4500), "IN",
                    RDataSRV(8594, 0, 0, NameMarinHost))}

NoCall == [op |-> "none", arg |-> FALSE]

CodecInit ==
    /\ builder = NewBuilder
    /\ phase = "open"
    /\ buffer = <<>>
    /\ marks = <<>>
    /\ last_call = NoCall

(***************************************************************************)
(* The header's methods, called through header_mut().                      *)
(***************************************************************************)
HeaderCall(op, arg, h) ==
    /\ phase = "open"
    /\ builder' = [builder EXCEPT !.header = h]
    /\ last_call' = [op |-> op, arg |-> arg]
    /\ UNCHANGED <<phase, buffer, marks, engineVars>>

SetId == \E id \in IdSamples : HeaderCall("set_id", id, set_id(builder.header, id))
SetQuery == \E b \in BOOLEAN : HeaderCall("set_query", b, set_query(builder.header, b))
SetOpcode ==
    \E c \in {"QUERY", "IQUERY", "STATUS"} :
        HeaderCall("set_opcode", c, set_opcode(builder.header, c))
SetAa == \E b \in BOOLEAN : HeaderCall("set_aa", b, set_aa(builder.header, b))
SetTc == \E b \in BOOLEAN : HeaderCall("set_tc", b, set_tc(builder.header, b))
SetRd == \E b \in BOOLEAN : HeaderCall("set_rd", b, set_rd(builder.header, b))
SetRa == \E b \in BOOLEAN : HeaderCall("set_ra", b, set_ra(builder.header, b))
SetRcode ==
    \E c \in {"NoError", "FormatError", "ServerFailure", "NameError",
              "NotImplemmented", "Refused"} :
        HeaderCall("set_rcode", c, set_rcode(builder.header, c))

NextHeader ==
    SetId \/ SetQuery \/ SetOpcode \/ SetAa \/ SetTc \/ SetRd \/ SetRa \/ SetRcode

(***************************************************************************)
(* The builder's methods.                                                  *)
(***************************************************************************)
AddQuestion ==
    \E q \in QuestionSamples :
        /\ phase = "open"
        /\ Len(builder.questions) < MaxQuestions
        /\ builder' = add_question(builder, q.prefer_unicast, q.name,
                                   q.qclass, q.qtype)
        /\ UNCHANGED <<phase, buffer, marks, last_call, engineVars>>

AddAnswer ==
    \E rr \in AnswerSamples :
        /\ phase = "open"
        /\ Len(builder.answers) < MaxAnswers
        /\ builder' = add_answer(builder, rr)
        /\ UNCHANGED <<phase, buffer, marks, last_call, engineVars>>

\* build consumes the builder; a name that fails append_qname's assertions
\* aborts it
Build ==
    /\ phase = "open"
    /\ IF BuildPanics(builder)
       THEN /\ phase' = "panicked"
            /\ UNCHANGED <<buffer, marks>>
       ELSE /\ phase' = "built"
            /\ buffer' = build(builder)
            /\ marks' = build_marks(builder)
    /\ UNCHANGED <<builder, last_call, engineVars>>

\* PacketBuilder::new() for the next packet
New ==
    /\ phase # "open"
    /\ builder' = NewBuilder
    /\ phase' = "open"
    /\ buffer' = <<>>
    /\ marks' = <<>>
    /\ last_call' = NoCall
    /\ UNCHANGED engineVars

NextBuilder == SetId \/ SetQuery \/ AddQuestion \/ AddAnswer \/ Build \/ New

(***************************************************************************)
(* TXT records, through both serialisers: txt::Record by way of the        *)
(* builder, and Answer::TXT of dns.rs appended to an empty Vec as          *)
(* dns.rs test::test_size_answer does.                                     *)
(***************************************************************************)
\* an entry of 256 bytes without a dot, and one of 259 bytes whose labels
\* are of 63 bytes or fewer
LongEntry == [i \in 1..256 |-> 97]
DottedLongEntry == [i \in 1..259 |-> IF i % 64 = 0 THEN 46 ELSE 97]

TxtEntriesSamples ==
    {<<>>, <<TxtFooBar, TxtBazQux, TxtFoobar>>, <<LongEntry>>,
     <<DottedLongEntry>>}

\* "march.local", "foo", "bar"
NameMarchHost == <<109, 97, 114, 99, 104, 46, 108, 111, 99, 97, 108>>
TxtFoo == <<102, 111, 111>>
TxtBar == <<98, 97, 114>>

\* the four answers of test_size_answer, and a TXT answer for each list of
\* entries above
AnswerEnumSamples ==
    {AnswerA(<<192, 168, 0, 1>>, NameService, DurationFromSecs(4500)),
     AnswerSRV(42, 0, 0, NameMarchHost, DurationFromSecs(4500), NameService),
     AnswerPTR(NameService, NameMarchHost, DurationFromSecs(4500)),
     AnswerTXT(NameService, DurationFromSecs(4500), <<TxtFoo, TxtBar>>)}
    \cup {AnswerTXT(NameService, DurationFromSecs(4500), entries) :
            entries \in TxtEntriesSamples}

AddTxtAnswer ==
    \E entries \in TxtEntriesSamples :
        /\ phase = "open"
        /\ Len(builder.answers) < MaxAnswers
        /\ builder' = add_answer(builder,
                                 ResourceRecord(NameService, DurationFromSecs(4500),
                                                "IN", RDataTXT(entries)))
        /\ UNCHANGED <<phase, buffer, marks, last_call, engineVars>>

\* answer.append_bytes(&mut out) on an empty out
AnswerAppend ==
    \E answer \in AnswerEnumSamples :
        /\ phase = "open"
        /\ builder.answers = <<>>
        /\ phase' = IF answer_append_bytes(<<>>, answer).res = "Ok"
                    THEN "appended" ELSE "panicked"
        /\ buffer' = answer_append_bytes(<<>>, answer).out
        /\ last_call' = [op |-> "append_bytes", arg |-> answer]
        /\ UNCHANGED <<builder, marks, engineVars>>

NextTxt == SetId \/ AddTxtAnswer \/ AnswerAppend \/ Build \/ New

(***************************************************************************)
(* Names at the limits of append_qname, as question names and as the       *)
(* target of a PTR record.                                                 *)
(***************************************************************************)
\* ".local"
DotLocal == <<46, 108, 111, 99, 97, 108>>

\* a first label of 63 bytes, and one of 64 bytes
Label63Name == [i \in 1..63 |-> 97] \o DotLocal
Label64Name == [i \in 1..64 |-> 97] \o DotLocal

\* "marin.local.": the trailing dot leaves an empty last element
TrailingDotName == NameMarinHost \o <<46>>

\* 259 bytes in labels of 63 bytes
LongDottedName == [i \in 1..259 |-> IF i % 64 = 0 THEN 46 ELSE 97]

NameSamples ==
    {NameMyService, Label63Name, Label64Name, TrailingDotName, LongDottedName}

AddNamedQuestion ==
    \E name \in NameSamples :
        /\ phase = "open"
        /\ Len(builder.questions) < MaxQuestions
        /\ builder' = add_question(builder, FALSE, name, "IN", "PTR")
        /\ UNCHANGED <<phase, buffer, marks, last_call, engineVars>>

PtrSamples == {NameMyService, Label63Name, TrailingDotName}

AddNamedAnswer ==
    \E ptr \in PtrSamples :
        /\ phase = "open"
        /\ Len(builder.answers) < MaxAnswers
        /\ builder' = add_answer(builder,
                                 ResourceRecord(NameMyService, DurationFromSecs(4500),
                                                "IN", RDataPTR(ptr)))
        /\ UNCHANGED <<phase, buffer, marks, last_call, engineVars>>

NextName == AddNamedQuestion \/ AddNamedAnswer \/ Build \/ New

(***************************************************************************)
(* Time-to-live values around the limits of duration_to_secs.  A Duration  *)
(* is its whole seconds (a u64) and its sub-second nanoseconds.            *)
(***************************************************************************)
Duration(secs, nanos) == [secs |-> secs, nanos |-> nanos]

TtlSamples ==
    {Duration(U64Of(0), 0), Duration(U64Of(0), 1),
     Duration(U64Of(4500), 0), Duration(U64Of(4500), 500000000),
     Duration(<<0, 0, 0, 65535>>, 999999999),
     Duration(<<0, 0, 65535, 65534>>, 0), Duration(<<0, 0, 65535, 65534>>, 1),
     Duration(<<0, 0, 65535, 65535>>, 0), Duration(<<0, 0, 65535, 65535>>, 1),
     Duration(<<0, 1, 0, 0>>, 0), Duration(<<0, 1, 0, 7>>, 1),
     Duration(U64Max, 999999999)}

AddTtlAnswer ==
    \E ttl \in TtlSamples :
        /\ phase = "open"
        /\ Len(builder.answers) < MaxAnswers
        /\ builder' = add_answer(builder,
                                 ResourceRecord(NameService, ttl, "IN",
                                                RDataA(<<7, 123, 234, 1>>)))
        /\ UNCHANGED <<phase, buffer, marks, last_call, engineVars>>

NextTtl == SetId \/ AddTtlAnswer \/ Build \/ New

(***************************************************************************)
(* service.rs: the engine.                                                 *)
(***************************************************************************)
SubIds == 1..MaxSubs

RegisterNames == {NameMyService, META_QUERY_SERVICE}
DiscoverNames == {NameMyService}
Peers == {"peer"}

\* a response as examples/simple_advertisement.rs builds it
ResponseWith(id, rr) ==
    build(add_answer([NewBuilder EXCEPT
                         !.header = set_query(set_id(NewBuilder.header, id), FALSE)],
                     rr))

\* the buffers handed to enqueue_response
ResponseSamples ==
    {ResponseWith(1, ResourceRecord(META_QUERY_SERVICE, DurationFromSecs(4500),
                                    "IN", RDataPTR(NameMyService))),
     ResponseWith(2, ResourceRecord(NameMarinHost, DurationFromSecs(4500),
                                    "IN", RDataA(<<0, 0, 0, 0>>)))}

RECURSIVE AddQuestions(_, _)
AddQuestions(b, names) ==
    IF names = <<>> THEN b
    ELSE AddQuestions(add_question(b, FALSE, Head(names), "IN", "PTR"),
                      Tail(names))

\* a query datagram, as a peer's builder writes it
QueryDatagram(id, names) ==
    build(AddQuestions([NewBuilder EXCEPT !.header.id = id], names))

\* what the main socket may receive: queries, responses of one, no and two
\* answers, bytes that are no DNS message, and a failed recv_from
DatagramSamples ==
    {[kind |-> "datagram", from |-> "peer",
      bytes |-> QueryDatagram(7, <<NameMyService, NameOther, META_QUERY_SERVICE>>)],
     [kind |-> "datagram", from |-> "peer",
      bytes |-> QueryDatagram(8, <<NameOther>>)],
     [kind |-> "datagram", from |-> "peer",
      bytes |-> ResponseWith(9, ResourceRecord(NameMyService,
                                               DurationFromSecs(4500), "IN",
                                               RDataPTR(NameMarinInstance)))],
     [kind |-> "datagram", from |-> "peer",
      bytes |-> build([NewBuilder EXCEPT
                          !.header = set_query(set_id(NewBuilder.header, 10),
                                               FALSE)])],
     [kind |-> "datagram", from |-> "peer",
      bytes |-> build(add_answer(
                    add_answer([NewBuilder EXCEPT
                                   !.header = set_query(set_id(NewBuilder.header, 11),
                                                        FALSE)],
                               ResourceRecord(NameMyService, DurationFromSecs(4500),
                                              "IN", RDataPTR(NameMarinInstance))),
                    ResourceRecord(NameMarinHost, DurationFromSecs(4500), "IN",
                                   RDataA(<<10, 0, 0, 1>>))))],
     [kind |-> "datagram", from |-> "peer", bytes |-> <<1, 2, 3>>],
     [kind |-> "error", from |-> "peer", bytes |-> <<>>]}

EngineInit ==
    /\ advertized_sevices = {}
    /\ recv_slice = <<>>
    /\ send_buffers = <<>>
    /\ query_send_buffers = <<>>
    /\ scheduler = <<>>
    /\ sub_name = [s \in SubIds |-> <<>>]
    /\ handle = [s \in SubIds |-> "none"]
    /\ ticker = [s \in SubIds |-> "none"]
    /\ last_try = [s \in SubIds |-> "none"]
    /\ woke = [s \in SubIds |-> 0]
    /\ inbox = <<>>
    /\ pc = "idle"
    /\ returned = <<>>
    /\ used = <<>>
    /\ wire_main = <<>>
    /\ wire_query = <<>>

\* self.advertized_sevices.insert(svc.to_string())
register(services, svc) == services \cup {svc}

\* unregister removing every service
unregister_clearing(services, svc) == {}

\* self.advertized_sevices.remove(svc)
unregister(services, svc) == services \ {svc}

\* the methods taking &mut self run only while no next() holds the engine
Register ==
    \E svc \in RegisterNames :
        /\ pc = "idle"
        /\ advertized_sevices' = register(advertized_sevices, svc)
        /\ UNCHANGED <<codecVars, recv_slice, send_buffers, query_send_buffers,
                       scheduler, sub_name, handle, ticker, last_try, woke,
                       inbox, pc, returned, used, wire_main, wire_query>>

Unregister ==
    \E svc \in RegisterNames :
        /\ pc = "idle"
        /\ advertized_sevices' = unregister(advertized_sevices, svc)
        /\ UNCHANGED <<codecVars, recv_slice, send_buffers, query_send_buffers,
                       scheduler, sub_name, handle, ticker, last_try, woke,
                       inbox, pc, returned, used, wire_main, wire_query>>

\* discover: a one-shot channel whose sender goes into the returned handle,
\* and a spawned ticker task
Discover ==
    \E service_name \in DiscoverNames, s \in SubIds :
        /\ pc = "idle"
        /\ handle[s] = "none"
        /\ \A t \in SubIds : t < s => handle[t] # "none"
        /\ sub_name' = [sub_name EXCEPT ![s] = service_name]
        /\ handle' = [handle EXCEPT ![s] = "held"]
        /\ ticker' = [ticker EXCEPT ![s] = "tick"]
        /\ UNCHANGED <<codecVars, advertized_sevices, recv_slice, send_buffers,
                       query_send_buffers, scheduler, last_try,
                       woke, inbox, pc, returned, used, wire_main, wire_query>>

\* the caller drops a ServiceDiscovery, and with it the one-shot sender
DropHandle ==
    \E s \in SubIds :
        /\ handle[s] = "held"
        /\ handle' = [handle EXCEPT ![s] = "dropped"]
        /\ UNCHANGED <<codecVars, advertized_sevices, recv_slice, send_buffers,
                       query_send_buffers, scheduler, sub_name,
                       ticker, last_try, woke, inbox, pc, returned, used,
                       wire_main, wire_query>>

\* orx.try_recv(): nothing ever sends on the one-shot channel, so it is
\* Err(Empty) while the sender lives and Err(Closed) once it is dropped
try_recv(h) == IF h = "dropped" THEN "Closed" ELSE "Empty"

\* a ticker that sends whatever try_recv returns, and so never stops
ticker_match_ignoring_cancel(r) == "send"

\* match orx.try_recv() { Ok(_) => send the name, Err(_) => break }
ticker_match(r) == IF r = "Ok" THEN "send" ELSE "break"

\* one turn of the ticker's loop: the tick, the try_recv, and the send (which
\* waits while the channel is full) or the break
TickerWake ==
    \E s \in SubIds :
        /\ ticker[s] = "tick"
        /\ woke[s] < MaxTicks
        /\ woke' = [woke EXCEPT ![s] = @ + 1]
        /\ last_try' = [last_try EXCEPT ![s] = try_recv(handle[s])]
        /\ IF ticker_match(try_recv(handle[s])) = "send"
           THEN /\ Len(scheduler) < ChannelCapacity
                /\ scheduler' = Append(scheduler, sub_name[s])
                /\ UNCHANGED ticker
           ELSE /\ ticker' = [ticker EXCEPT ![s] = "done"]
                /\ UNCHANGED scheduler
        /\ UNCHANGED <<codecVars, advertized_sevices, recv_slice, send_buffers,
                       query_send_buffers, sub_name, handle,
                       inbox, pc, returned, used, wire_main, wire_query>>

\* each sample buffer is handed over at most once
EnqueueResponse ==
    \E rsp \in ResponseSamples \ {used[i] : i \in 1..Len(used)} :
        /\ pc = "idle"
        /\ send_buffers' = Append(send_buffers, rsp)
        /\ used' = Append(used, rsp)
        /\ UNCHANGED <<codecVars, advertized_sevices, recv_slice, query_send_buffers,
                       scheduler, sub_name, handle, ticker,
                       last_try, woke, inbox, pc, returned, wire_main,
                       wire_query>>

\* a datagram (or a socket error) becomes ready on the main socket.  Only
\* the select of next() reads the socket, and it cannot tell a datagram that
\* was waiting from one that arrives while it waits: arrivals are taken
\* there.
Arrive ==
    \E d \in DatagramSamples :
        /\ Len(inbox) < MaxInbox
        /\ pc = "select"
        /\ inbox' = Append(inbox, d)
        /\ UNCHANGED <<codecVars, advertized_sevices, recv_slice, send_buffers,
                       query_send_buffers, scheduler, sub_name,
                       handle, ticker, last_try, woke, pc, returned, used,
                       wire_main, wire_query>>

\* a loop whose second drain loop is missing
LoopTop_without_query_drain(main, query) ==
    IF main = <<>> THEN "select" ELSE "flush"

\* the top of next()'s loop: the two drain loops run while a queue holds
\* something, then the select waits
LoopTop(main, query) ==
    IF main = <<>> /\ query = <<>> THEN "select" ELSE "flush"

NextCall ==
    /\ pc = "idle"
    /\ pc' = LoopTop(send_buffers, query_send_buffers)
    /\ returned' = <<>>
    /\ recv_slice' = <<>>
    /\ UNCHANGED <<codecVars, advertized_sevices, send_buffers,
                   query_send_buffers, scheduler, sub_name,
                   handle, ticker, last_try, woke, inbox, used, wire_main,
                   wire_query>>

\* a drain loop taking the buffer enqueued last
remove_last(queue) ==
    [to_send |-> queue[Len(queue)], rest |-> SubSeq(queue, 1, Len(queue) - 1)]

\* let to_send = self.send_buffers.remove(0)
remove_first(queue) == [to_send |-> Head(queue), rest |-> Tail(queue)]

\* a drain loop that keeps the queue when send_to fails
after_send_keeping_rest(rest, ok) == rest

\* the match on send_to's result: Ok leaves the rest of the queue, Err
\* clears it (and leaves the drain loop)
after_send(rest, ok) == IF ok THEN rest ELSE <<>>

\* one send_to of the drain loops: the main queue first, the query queue once
\* the main queue is empty; an error clears the queue being drained
NextSend ==
    \E ok \in BOOLEAN :
        /\ pc = "flush"
        /\ IF send_buffers # <<>>
           THEN /\ send_buffers' = after_send(remove_first(send_buffers).rest, ok)
                /\ wire_main' =
                       IF ok
                       THEN Append(wire_main, remove_first(send_buffers).to_send)
                       ELSE wire_main
                /\ UNCHANGED <<query_send_buffers, wire_query>>
           ELSE /\ query_send_buffers # <<>>
                /\ query_send_buffers' =
                       after_send(remove_first(query_send_buffers).rest, ok)
                /\ wire_query' =
                       IF ok
                       THEN Append(wire_query,
                                   remove_first(query_send_buffers).to_send)
                       ELSE wire_query
                /\ UNCHANGED <<send_buffers, wire_main>>
        /\ pc' = LoopTop(send_buffers', query_send_buffers')
        /\ UNCHANGED <<codecVars, advertized_sevices, recv_slice, scheduler,
                       sub_name, handle, ticker, last_try, woke, inbox,
                       returned, used>>

\* question_event without its branch for the meta-service name
question_event_without_meta(advertised, q, from, id) ==
    IF q.qname \in advertised
    THEN <<[kind |-> "Query", service_name |-> q.qname, from |-> from,
            query_id |-> id]>>
    ELSE <<>>

\* the closure of the filter_map over the questions: at most one event
question_event(advertised, q, from, id) ==
    IF q.qname \in advertised
    THEN <<[kind |-> "Query", service_name |-> q.qname, from |-> from,
            query_id |-> id]>>
    ELSE IF q.qname = META_QUERY_SERVICE
    THEN <<[kind |-> "ServiceDiscovery", from |-> from, query_id |-> id]>>
    ELSE <<>>

RECURSIVE question_events(_, _, _, _)
question_events(advertised, qs, from, id) ==
    IF qs = <<>> THEN <<>>
    ELSE question_event(advertised, Head(qs), from, id)
         \o question_events(advertised, Tail(qs), from, id)

\* the match of parse_mdns_packets on the parser's result
classify(advertised, packet, from) ==
    IF ~packet.ok THEN <<>>
    ELSE IF packet.header.query
    THEN question_events(advertised, packet.questions, from, packet.header.id)
    ELSE [i \in 1..Len(packet.answers) |->
             [kind |-> "Response", answers |-> packet.answers]]

\* MdnsService::parse_mdns_packets
parse_mdns_packets(advertised, buf, from) ==
    classify(advertised, Parse(buf), from)

\* the packet next() builds when the scheduler yields a name
discovery_query(service_name) ==
    build(add_question(NewBuilder, TRUE, service_name, "IN", "PTR"))

\* a Right arm that builds the query and lets it go
push_query_dropped(queue, service_name) == queue

\* Right(Some(service_name)): self.query_send_buffers.push(query)
push_query(queue, service_name) == Append(queue, discovery_query(service_name))

\* a select that takes the scheduler's name even when the socket wins
unpolled_losing_name(channel) ==
    IF channel = <<>> THEN channel ELSE Tail(channel)

\* Either::Left: select returns before it polls the scheduler's recv(), and
\* dropping that future takes nothing out of the channel
unpolled(channel) == channel

\* a next() that returns only when it has an event to give
returns_only_events(packets) == packets # <<>>

\* Left(Ok((len, from))): return (self, packets), whatever packets holds
returns(packets) == TRUE

\* recv_from fills the 2048 bytes of self.recv_buffer and yields the length;
\* the engine reads the slice of that length
received(bytes) == SubSeq(bytes, 1, Min(Len(bytes), RecvBufferSize))

\* the select of next() and the match on its outcome.  select polls the
\* socket first: a ready datagram wins over a ready scheduler name, which
\* stays in the channel.
NextSelect ==
    /\ pc = "select"
    /\ IF inbox # <<>>
       THEN /\ inbox' = Tail(inbox)
            /\ IF Head(inbox).kind = "error"
               THEN /\ pc' = LoopTop(send_buffers, query_send_buffers)
                    /\ UNCHANGED <<returned, recv_slice>>
               ELSE /\ recv_slice' = received(Head(inbox).bytes)
                    /\ IF returns(parse_mdns_packets(advertized_sevices,
                                                     received(Head(inbox).bytes),
                                                     Head(inbox).from))
                       THEN /\ returned' =
                                   parse_mdns_packets(advertized_sevices,
                                                      received(Head(inbox).bytes),
                                                      Head(inbox).from)
                            /\ pc' = "idle"
                       ELSE /\ pc' = LoopTop(send_buffers, query_send_buffers)
                            /\ UNCHANGED returned
            /\ scheduler' = unpolled(scheduler)
            /\ UNCHANGED query_send_buffers
       ELSE /\ scheduler # <<>>
            /\ scheduler' = Tail(scheduler)
            /\ query_send_buffers' =
                   push_query(query_send_buffers, Head(scheduler))
            /\ pc' = LoopTop(send_buffers, query_send_buffers')
            /\ UNCHANGED <<inbox, returned, recv_slice>>
    /\ UNCHANGED <<codecVars, advertized_sevices, send_buffers, sub_name,
                   handle, ticker, last_try, woke, used, wire_main, wire_query>>

NextEngine ==
    \/ Register \/ Unregister \/ Discover \/ DropHandle \/ TickerWake
    \/ EnqueueResponse \/ Arrive \/ NextCall \/ NextSend \/ NextSelect

\* the Ok arm of the ticker's match on its own: the tick, and the send of
\* the name on the scheduler channel (which waits while the channel is full)
TickerSend ==
    \E s \in SubIds :
        /\ ticker[s] = "tick"
        /\ woke[s] < MaxTicks
        /\ ticker_match("Ok") = "send"
        /\ Len(scheduler) < ChannelCapacity
        /\ woke' = [woke EXCEPT ![s] = @ + 1]
        /\ scheduler' = Append(scheduler, sub_name[s])
        /\ UNCHANGED <<codecVars, advertized_sevices, recv_slice, send_buffers,
                       query_send_buffers, sub_name, handle, ticker, last_try,
                       inbox, pc, returned, used, wire_main, wire_query>>

\* the engine with a scheduler channel that receives names
NextScheduled ==
    \/ Discover \/ TickerSend \/ EnqueueResponse \/ Arrive \/ NextCall
    \/ NextSend \/ NextSelect

(***************************************************************************)
(* Specifications.  Spec is the engine; SpecHeader calls the header's      *)
(* methods on a builder's header; SpecBuilder fills and builds packets.    *)
(* In Spec no ticker ever sends a name (try_recv never returns Ok), so the *)
(* scheduler arm of next() stays idle there; SpecScheduled runs next()     *)
(* against a channel that does receive names.                              *)
(***************************************************************************)
Init == CodecInit /\ EngineInit

Next == NextEngine
Spec == Init /\ [][Next]_vars

SpecHeader == Init /\ [][NextHeader]_vars

SpecBuilder == Init /\ [][NextBuilder]_vars

SpecTxt == Init /\ [][NextTxt]_vars

SpecName == Init /\ [][NextName]_vars

SpecTtl == Init /\ [][NextTtl]_vars

SpecScheduled == Init /\ [][NextScheduled]_vars

(***************************************************************************)
(* Properties.                                                             *)
(***************************************************************************)
\* a question the filter keeps, for the advertised set S
Kept(S, q) == q.qname \in S \/ q.qname = META_QUERY_SERVICE

\* the name an entry of a returned list answers for
EntryName(e) ==
    IF e.kind = "Query" THEN e.service_name
    ELSE IF e.kind = "ServiceDiscovery" THEN META_QUERY_SERVICE
    ELSE <<>>

\* the entries answer, one to one and in order, for the kept questions qs
MatchesKept(entries, qs) ==
    /\ Len(entries) = Len(qs)
    /\ \A i \in 1..Len(qs) :
          /\ entries[i].kind \in {"Query", "ServiceDiscovery"}
          /\ EntryName(entries[i]) = qs[i].qname

\* the question names of a packet on the wire
QuestionNames(bytes) ==
    {Parse(bytes).questions[i].qname : i \in 1..Len(Parse(bytes).questions)}

\* C1: when next() returns for a datagram that parses as a query, the entries
\* it returns are, one to one and in the packet's order, the questions whose
\* name is advertised or is the meta-service name: none other, none twice.
C1_EngineFilter ==
    [][(/\ pc = "select"
        /\ pc' = "idle"
        /\ Parse(received(Head(inbox).bytes)).ok
        /\ Parse(received(Head(inbox).bytes)).header.query)
       => MatchesKept(returned',
                      SelectSeq(Parse(received(Head(inbox).bytes)).questions,
                                LAMBDA q : Kept(advertized_sevices, q)))]_vars

\* next() has returned two entries for a query of three questions: the
\* advertised name first, the meta-service name second, the third dropped
C1_Witness ==
    /\ pc = "idle"
    /\ Len(returned) = 2
    /\ returned[1].kind = "Query"
    /\ returned[1].service_name = NameMyService
    /\ returned[2].kind = "ServiceDiscovery"

\* C2: while its handle is held, a ticker that takes a tick enqueues its name
\* onto the scheduler channel and goes on ticking.
C2_TickEnqueuesName ==
    [][\A s \in SubIds :
          (woke'[s] = woke[s] + 1 /\ handle[s] = "held")
          => (/\ scheduler' = Append(scheduler, sub_name[s])
              /\ ticker'[s] = "tick")]_vars

\* C3: once a subscription's handle is dropped, the query socket sends no
\* packet that asks for the subscription's name.
C3_NoQueryAfterDrop ==
    [][\A s \in SubIds :
          handle[s] = "dropped"
          => \A i \in (Len(wire_query) + 1)..Len(wire_query') :
                sub_name[s] \notin QuestionNames(wire_query'[i])]_vars

\* the handle is dropped, the ticker has woken and seen the closed channel,
\* and next() is waiting in its select
C3_Witness ==
    \E s \in SubIds :
        /\ handle[s] = "dropped"
        /\ last_try[s] = "Closed"
        /\ ticker[s] = "done"
        /\ pc = "select"

\* C4: a ticker does not terminate before its handle is dropped.
C4_TickerStopsOnlyAfterDrop ==
    \A s \in SubIds : ticker[s] = "done" => handle[s] = "dropped"

FlagSetters == {"set_query", "set_aa", "set_tc", "set_rd", "set_ra"}

\* the bit of the flags word a setter is for
OwnBit(op) ==
    CASE op = "set_query" -> 15 [] op = "set_aa" -> 10 [] op = "set_tc" -> 9
      [] op = "set_rd" -> 8 [] op = "set_ra" -> 7

BitOf(x, k) == (x \div Shl1(k)) % 2

\* C5: a flag setter called a second time in a row with the same argument
\* leaves the header as the first call left it.
C5_SetterIdempotent ==
    [][(last_call.op \in FlagSetters /\ last_call' = last_call)
       => builder'.header = builder.header]_vars

\* C6: a flag setter changes at most its own bit: the other bits of the flags
\* word, the id and the section counts stay, and set_aa, set_tc, set_rd and
\* set_ra called with false leave their bit clear.
C6_SetterFrame ==
    [][last_call'.op \in FlagSetters
       => /\ \A k \in (0..15) \ {OwnBit(last_call'.op)} :
                BitOf(builder'.header.flags, k) = BitOf(builder.header.flags, k)
          /\ builder'.header.id = builder.header.id
          /\ builder'.header.qd_count = builder.header.qd_count
          /\ builder'.header.an_count = builder.header.an_count
          /\ builder'.header.ns_count = builder.header.ns_count
          /\ builder'.header.ar_count = builder.header.ar_count
          /\ (last_call'.op # "set_query" /\ last_call'.arg = FALSE)
             => BitOf(builder'.header.flags, OwnBit(last_call'.op)) = 0]_vars

\* C7: the header's question and answer counts are the lengths of the
\* builder's lists, and the header bytes build writes carry those counts.
C7_CountsMatchLists ==
    /\ phase = "open" =>
          /\ builder.header.qd_count = Len(builder.questions)
          /\ builder.header.an_count = Len(builder.answers)
    /\ phase = "built" =>
          /\ U16At(buffer, 5) = Len(builder.questions)
          /\ U16At(buffer, 7) = Len(builder.answers)

\* a packet of one question and two answers has been built
C7_Witness ==
    /\ phase = "built"
    /\ Len(builder.questions) = 1
    /\ Len(builder.answers) = 2

\* in the built buffer, the position of the RDLENGTH of the i-th answer: its
\* record starts after marks[i] bytes with the name, then type, class and TTL
RdLengthPos(i) == ReadName(buffer, marks[i] + 1).next + 8

\* the RDATA of the i-th answer: from after its RDLENGTH to the record's end
RDataBytes(i) == SubSeq(buffer, RdLengthPos(i) + 2, marks[i + 1])

C9_RoundTrip ==
    phase = "built" =>
        /\ Parse(buffer).ok
        /\ Parse(buffer).header.questions = Len(builder.questions)
        /\ Parse(buffer).header.answers = Len(builder.answers)
        /\ Len(Parse(buffer).questions) = Len(builder.questions)
        /\ Len(Parse(buffer).answers) = Len(builder.answers)
        /\ \A i \in 1..Len(builder.questions) :
              /\ Parse(buffer).questions[i].qname = builder.questions[i].name
              /\ Parse(buffer).questions[i].qtype
                     = QueryTypeCode(builder.questions[i].qtype)
              /\ Parse(buffer).questions[i].qclass
                     = QueryClassCode(builder.questions[i].qclass)
        /\ \A i \in 1..Len(builder.answers) :
              /\ Parse(buffer).answers[i].name = builder.answers[i].name
              /\ Parse(buffer).answers[i].ttl
                     = duration_to_secs(builder.answers[i].ttl)
              /\ Parse(buffer).answers[i].cls
                     = ClassCode(builder.answers[i].class)
              /\ Parse(buffer).answers[i].data.kind
                     = builder.answers[i].data.kind
              /\ Parse(buffer).answers[i].data = builder.answers[i].data

RECURSIVE LengthPrefixed(_)
\* each entry as one length byte and the entry's bytes, in order
LengthPrefixed(entries) ==
    IF entries = <<>> THEN <<>>
    ELSE <<Len(Head(entries))>> \o Head(entries) \o LengthPrefixed(Tail(entries))

\* C10: the RDATA of a TXT record of one or more entries is the entries in
\* order, each as one length byte and its bytes, and nothing else.
C10_TxtRDataIsLengthPrefixed ==
    phase = "built" =>
        \A i \in 1..Len(builder.answers) :
            (/\ builder.answers[i].data.kind = "TXT"
             /\ builder.answers[i].data.entries # <<>>)
            => RDataBytes(i) = LengthPrefixed(builder.answers[i].data.entries)

\* C11: a TXT record of no entries is emitted with an RDATA of exactly one
\* zero byte, its RDLENGTH being 1.
C11_EmptyTxtIsOneZeroByte ==
    phase = "built" =>
        \A i \in 1..Len(builder.answers) :
            builder.answers[i].data = RDataTXT(<<>>)
            => /\ U16At(buffer, RdLengthPos(i)) = 1
               /\ RDataBytes(i) = <<0>>

\* some entry of the list is longer than a length byte can tell
TooLong(entries) == \E k \in 1..Len(entries) : Len(entries[k]) > 255

\* the TXT entry lists the codec has been given: those of the builder's
\* answers, and the one of the last Answer::append_bytes
GivenEntries ==
    {builder.answers[i].data.entries : i \in 1..Len(builder.answers)}
    \cup (IF last_call.op = "append_bytes" /\ last_call.arg.kind = "TXT"
          THEN {last_call.arg.entries} ELSE {})

\* C12: building a TXT record with an entry above 255 bytes ends with the
\* TXT-too-long error handed to the caller: it is neither an abort nor a
\* record that was emitted.
C12_TxtTooLongIsSignalled ==
    (\E entries \in GivenEntries : TooLong(entries))
    => phase \in {"open", "error"}

\* in the built buffer, the 16-bit class field of the i-th answer
ClassField(i) == U16At(buffer, RdLengthPos(i) - 6)

\* C13: every answer emitted for a unique record (A, AAAA, SRV, TXT) has the
\* cache-flush bit 0x8000 set in its class field.
C13_UniqueRecordsFlushCache ==
    phase = "built" =>
        \A i \in 1..Len(builder.answers) :
            builder.answers[i].data.kind \in {"A", "AAAA", "SRV", "TXT"}
            => ClassField(i) >= 32768

\* the select takes the datagram at the head of the inbox
TakesDatagram ==
    /\ pc = "select"
    /\ inbox # <<>>
    /\ Head(inbox).kind = "datagram"
    /\ inbox' = Tail(inbox)

\* C14: a datagram that fails to parse does not make next() return: the
\* engine goes on waiting.
C14_ParseFailureKeepsWaiting ==
    [][(TakesDatagram /\ ~Parse(received(Head(inbox).bytes)).ok)
       => pc' # "idle"]_vars

\* bytes parse as a query none of whose questions the filter keeps
NoneKept(S, bytes) ==
    /\ Parse(bytes).ok
    /\ Parse(bytes).header.query
    /\ \A i \in 1..Len(Parse(bytes).questions) :
          ~Kept(S, Parse(bytes).questions[i])

\* C15: a query none of whose questions is kept makes next() return, with
\* no entry.
C15_UnkeptQueryStillReturns ==
    [][(TakesDatagram
        /\ NoneKept(advertized_sevices, received(Head(inbox).bytes)))
       => (pc' = "idle" /\ returned' = <<>>)]_vars

\* next() has returned nothing for the query that asks for a name that is
\* not advertised, while another name is
C15_Witness ==
    /\ pc = "idle"
    /\ returned = <<>>
    /\ recv_slice = QueryDatagram(8, <<NameOther>>)
    /\ advertized_sevices # {}

\* C16: a parsed packet that is not a query makes next() return exactly one
\* Response event, whatever the number of its answers.
C16_OneResponsePerPacket ==
    [][(/\ TakesDatagram
        /\ Parse(received(Head(inbox).bytes)).ok
        /\ ~Parse(received(Head(inbox).bytes)).header.query)
       => (/\ pc' = "idle"
           /\ Len(returned') = 1
           /\ returned'[1].kind = "Response")]_vars

\* a send_to of the drain loop of queue fails: the queue loses buffers and
\* the wire gains none
SendFails(queue, queue2, wire, wire2) ==
    /\ pc = "flush"
    /\ queue2 # queue
    /\ wire2 = wire

\* C17: a failed send discards the rest of the queue being drained, leaves
\* the other queue as it is and still to be drained, and next() neither
\* returns nor stops: it drains the other queue or waits in its select.
C17_SendErrorIsNotFatal ==
    [][/\ SendFails(send_buffers, send_buffers', wire_main, wire_main')
          => /\ send_buffers' = <<>>
             /\ query_send_buffers' = query_send_buffers
             /\ pc' = LoopTop(<<>>, query_send_buffers)
             /\ returned' = returned
       /\ SendFails(query_send_buffers, query_send_buffers', wire_query,
                    wire_query')
          => /\ query_send_buffers' = <<>>
             /\ send_buffers' = send_buffers
             /\ pc' = "select"
             /\ returned' = returned]_vars

\* two buffers were enqueued, the send of the first failed, the second was
\* discarded with it, and next() waits in its select
C17_Witness ==
    /\ pc = "select"
    /\ Len(used) = 2
    /\ wire_main = <<>>
    /\ send_buffers = <<>>

\* the place of a buffer in the order of the enqueue_response calls
EnqueuedAt(rsp) == CHOOSE i \in 1..Len(used) : used[i] = rsp

\* a step of a queue and its socket: a buffer enters at the back of the
\* queue, and the socket sends nothing but the buffer at its front
QueueStep(queue, queue2, wire, wire2) ==
    /\ Len(queue2) > Len(queue) => SubSeq(queue2, 1, Len(queue)) = queue
    /\ wire2 # wire =>
          /\ queue # <<>>
          /\ wire2 = Append(wire, Head(queue))
          /\ queue2 = Tail(queue)

\* C18: each socket sends the buffers of its queue in the order they were
\* enqueued: of two buffers the main socket has sent, the one given first to
\* enqueue_response went first, and every send takes the front of its queue.
C18_SendsAreFifo ==
    /\ [](\A i, j \in 1..Len(wire_main) :
             i < j => EnqueuedAt(wire_main[i]) < EnqueuedAt(wire_main[j]))
    /\ [][/\ QueueStep(send_buffers, send_buffers', wire_main, wire_main')
          /\ QueueStep(query_send_buffers, query_send_buffers', wire_query,
                       wire_query')]_vars

\* both enqueued buffers have been sent
C18_Witness ==
    /\ Len(used) = 2
    /\ Len(wire_main) = 2

\* in a built buffer, the 16-bit class field of the first question
QClassField == U16At(buffer, ReadName(buffer, 13).next + 2)

\* C19: the packet built when the scheduler yields a name has QR = 0, one
\* question (the name, type PTR, class IN) whose class field carries the
\* prefer-unicast bit 0x8000, and no answer.
C19_TickQueryPacket ==
    (phase = "built" /\ \E name \in DiscoverNames : buffer = discovery_query(name))
    => /\ BitOf(U16At(buffer, 3), 15) = 0
       /\ U16At(buffer, 5) = 1
       /\ U16At(buffer, 7) = 0
       /\ ReadName(buffer, 13).name \in DiscoverNames
       /\ U16At(buffer, ReadName(buffer, 13).next) = QueryTypeCode("PTR")
       /\ QClassField % 32768 = QueryClassCode("IN")
       /\ QClassField >= 32768

\* C20: on the advertised set, register and unregister done twice are as done
\* once, unregister of a name that is not registered changes nothing, and
\* neither changes whether another name is registered.
C20_RegisterIdempotent ==
    \A n \in RegisterNames :
        /\ register(register(advertized_sevices, n), n)
               = register(advertized_sevices, n)
        /\ unregister(unregister(advertized_sevices, n), n)
               = unregister(advertized_sevices, n)
        /\ n \notin advertized_sevices
               => unregister(advertized_sevices, n) = advertized_sevices
        /\ \A m \in RegisterNames \ {n} :
              /\ m \in register(advertized_sevices, n)
                     <=> m \in advertized_sevices
              /\ m \in unregister(advertized_sevices, n)
                     <=> m \in advertized_sevices

\* both names are registered
C20_Witness == advertized_sevices = RegisterNames

\* the QR bit (bit 15 of the flags word) as header_append_bytes emits it
EmittedQr(h) == BitOf(U16At(header_append_bytes(<<>>, h), 3), 15)

\* C21: a new header is a query, and after set_query(q) is_query() is q and
\* the emitted QR bit is 0 for q true, 1 for q false.
C21_QueryAccessorsAgree ==
    /\ last_call.op = "none" => is_query(builder.header)
    /\ last_call.op = "set_query" =>
          /\ is_query(builder.header) = last_call.arg
          /\ EmittedQr(builder.header) = (IF last_call.arg THEN 0 ELSE 1)

\* the number of bytes of the label of name that starts at position k
LabelLen(name, k) ==
    CHOOSE n \in 0..Len(name) :
        /\ k + n = Len(name) + 1 \/ name[k + n] = 46
        /\ \A j \in k..(k + n - 1) : name[j] # 46

\* the positions where a label of name starts: the first, and after each dot
LabelStarts(name) == {k \in 1..(Len(name) + 1) : k = 1 \/ name[k - 1] = 46}

\* the wire form of a dotted name: each dot's place (and the first byte)
\* holds the length of the label that follows, and a zero byte ends it
WireName(name) ==
    [k \in 1..(Len(name) + 2) |->
        IF k = Len(name) + 2 THEN 0
        ELSE IF k \in LabelStarts(name) THEN LabelLen(name, k)
        ELSE name[k - 1]]

RECURSIVE DecodeLabels(_, _)
\* the labels read from the wire form w at pos, joined by dots
DecodeLabels(w, pos) ==
    IF w[pos] = 0 THEN <<>>
    ELSE IF w[pos + 1 + w[pos]] = 0 THEN SubSeq(w, pos + 1, pos + w[pos])
    ELSE SubSeq(w, pos + 1, pos + w[pos]) \o <<46>>
         \o DecodeLabels(w, pos + 1 + w[pos])

\* at pos the buffer holds name as labels: the expected bytes, every length
\* byte in 1..63 (so none is a compression pointer), and they decode to name
EncodedAt(pos, name) ==
    /\ pos + Len(name) + 1 <= Len(buffer)
    /\ SubSeq(buffer, pos, pos + Len(name) + 1) = WireName(name)
    /\ \A k \in LabelStarts(name) : buffer[pos + k - 1] \in 1..63
    /\ DecodeLabels(buffer, pos) = name

RECURSIVE QuestionStart(_)
\* where the i-th question of the built buffer starts: after the header and
\* the earlier questions, each a name, a type and a class
QuestionStart(i) ==
    IF i = 1 THEN 13
    ELSE QuestionStart(i - 1) + Len(builder.questions[i - 1].name) + 6

\* C22: a dotted name with labels of 1 to 63 bytes is written as, per label,
\* a length byte and the label's bytes, then one zero byte, with no
\* compression pointer; decoding the bytes gives back the name.
C22_NameEncoding ==
    phase = "built" =>
        /\ \A i \in 1..Len(builder.questions) :
               EncodedAt(QuestionStart(i), builder.questions[i].name)
        /\ \A i \in 1..Len(builder.answers) :
               /\ EncodedAt(marks[i] + 1, builder.answers[i].name)
               /\ builder.answers[i].data.kind = "PTR" =>
                      /\ EncodedAt(marks[i] + Len(builder.answers[i].name) + 13,
                                   builder.answers[i].data.ptr)
                      /\ marks[i + 1] = marks[i] + Len(builder.answers[i].name)
                                        + 12 + Len(builder.answers[i].data.ptr) + 2

\* a packet has been built whose second question has a first label of 63
\* bytes and whose answer points to a name of several labels
C22_Witness ==
    /\ phase = "built"
    /\ Len(builder.questions) = 2
    /\ builder.questions[2].name = Label63Name
    /\ Len(builder.answers) = 1
    /\ builder.answers[1].data.ptr = NameMyService

\* the name invariant: at most 255 bytes, every label of 1 to 63 bytes
NameInvariant(name) ==
    /\ Len(name) <= 255
    /\ \A k \in LabelStarts(name) : LabelLen(name, k) \in 1..63

\* the names a builder hands to the serialiser
BuilderNames ==
    {builder.questions[i].name : i \in 1..Len(builder.questions)}
    \cup {builder.answers[i].name : i \in 1..Len(builder.answers)}
    \cup {builder.answers[i].data.ptr :
            i \in {j \in 1..Len(builder.answers) :
                     builder.answers[j].data.kind = "PTR"}}

\* C23: every name build emits satisfies the name invariant, and a build
\* given a name that breaks it is aborted without a packet.
C23_EmittedNamesAreValid ==
    /\ phase = "built" => \A name \in BuilderNames : NameInvariant(name)
    /\ (phase # "open" /\ \E name \in BuilderNames : ~NameInvariant(name))
          => phase = "panicked" /\ buffer = <<>>

\* the whole seconds of a duration below 2^32 - 1 seconds, plus one
SecsPlusOne(secs) ==
    IF secs[4] = 65535 THEN <<secs[3] + 1, 0>> ELSE <<secs[3], secs[4] + 1>>

\* the four TTL bytes a duration must give: 0xFFFFFFFF from 2^32 - 1 seconds
\* on (after rounding up), else the seconds rounded up, big-endian
TtlBytes(d) ==
    IF \/ d.secs[1] > 0 \/ d.secs[2] > 0
       \/ d.secs[3] = 65535 /\ d.secs[4] = 65535
       \/ d.secs[3] = 65535 /\ d.secs[4] = 65534 /\ d.nanos > 0
    THEN <<255, 255, 255, 255>>
    ELSE IF d.nanos > 0
    THEN <<SecsPlusOne(d.secs)[1] \div 256, SecsPlusOne(d.secs)[1] % 256,
           SecsPlusOne(d.secs)[2] \div 256, SecsPlusOne(d.secs)[2] % 256>>
    ELSE <<d.secs[3] \div 256, d.secs[3] % 256,
           d.secs[4] \div 256, d.secs[4] % 256>>

\* C24: the TTL of every emitted record is the duration in whole seconds,
\* a non-zero sub-second part rounded up, and 0xFFFFFFFF for a duration of
\* 2^32 - 1 seconds or more.
C24_TtlRoundsUpAndSaturates ==
    phase = "built" =>
        \A i \in 1..Len(builder.answers) :
            SubSeq(buffer, RdLengthPos(i) - 4, RdLengthPos(i) - 1)
                = TtlBytes(builder.answers[i].ttl)

\* a packet has been built with a TTL that rounds up to 2^32 - 1 seconds and
\* one of 2^64 - 1 seconds and a sub-second part
C24_Witness ==
    /\ phase = "built"
    /\ Len(builder.answers) = 2
    /\ builder.answers[1].ttl = Duration(<<0, 0, 65535, 65534>>, 1)
    /\ builder.answers[2].ttl = Duration(U64Max, 999999999)

\* C25: whenever next() waits for a datagram or a scheduler name, both send
\* queues are empty.
C25_QueuesEmptyWhileWaiting ==
    pc = "select" => send_buffers = <<>> /\ query_send_buffers = <<>>

\* next() waits after it has sent a response and a discovery query
C25_Witness ==
    /\ pc = "select"
    /\ Len(wire_main) = 1
    /\ Len(wire_query) = 1

\* next() takes a name from the scheduler channel
TakesName == pc = "select" /\ scheduler # <<>> /\ scheduler' = Tail(scheduler)

\* C26: a scheduler name never makes next() return: it puts one query packet
\* for that name at the end of the query queue and goes round the loop, and
\* the packet leaves the queue (sent by the query socket, or discarded on a
\* send error) before next() waits again.
C26_TickDoesNotReturn ==
    [][/\ TakesName =>
            /\ pc' = "flush"
            /\ returned' = returned
            /\ query_send_buffers' =
                   Append(query_send_buffers, discovery_query(Head(scheduler)))
            /\ U16At(query_send_buffers'[Len(query_send_buffers')], 5) = 1
            /\ U16At(query_send_buffers'[Len(query_send_buffers')], 7) = 0
            /\ SubSeq(query_send_buffers'[Len(query_send_buffers')], 13,
                      Len(Head(scheduler)) + 14) = WireName(Head(scheduler))
            /\ send_buffers' = send_buffers
       /\ (pc = "flush" /\ query_send_buffers # <<>>) =>
            /\ pc' \in {"flush", "select"}
            /\ pc' = "select" => query_send_buffers' = <<>>
            /\ wire_query' \in {wire_query,
                                Append(wire_query, Head(query_send_buffers))}
            /\ wire_query' = wire_query =>
                   query_send_buffers' \in {query_send_buffers, <<>>}]_vars

\* next() waits again, without having returned, after the query socket sent
\* the packet of a scheduler name
C26_Witness ==
    /\ pc = "select"
    /\ Len(wire_query) = 1
    /\ wire_query[1] = discovery_query(NameMyService)
    /\ scheduler = <<>>
    /\ wire_main = <<>>
    /\ used = <<>>

C27_BytesSizeIsWrittenSize ==
    (phase = "appended" /\ last_call.op = "append_bytes")
    => bytes_size(last_call.arg) = Len(buffer)

\* the questions of the query that next() is returning for
ReturnedFor == Parse(received(Head(inbox).bytes)).questions

\* C29: a question for the meta-service name is always surfaced as a
\* ServiceDiscovery event, whatever the advertised set holds, the meta name
\* itself included.
C29_MetaQueryIsServiceDiscovery ==
    [][(/\ pc = "select"
        /\ pc' = "idle"
        /\ Parse(received(Head(inbox).bytes)).ok
        /\ Parse(received(Head(inbox).bytes)).header.query
        /\ \E i \in 1..Len(ReturnedFor) :
               ReturnedFor[i].qname = META_QUERY_SERVICE)
       => \E j \in 1..Len(returned') :
              returned'[j].kind = "ServiceDiscovery"]_vars

=============================================================================
